---------------------------- MODULE Spec2Model ----------------------------
(***************************************************************************)
(* Stock watchlist: the debounced search controller (SearchBar.jsx), the   *)
(* per-symbol quote state (App.jsx) and the remote access layer (api.js).  *)
(*                                                                         *)
(* Strings are TLA+ strings; Len, SubSeq and \o act on them character by   *)
(* character, so toLowerCase, includes, startsWith and trim are computed   *)
(* as the JavaScript methods compute them.                                 *)
(*                                                                         *)
(* Scheduling is the JavaScript event loop: every action is one task (an   *)
(* event handler, a timer callback, an I/O completion) together with the   *)
(* microtasks it queues (promise continuations), which run to completion   *)
(* before the next task starts.                                            *)
(***************************************************************************)
EXTENDS Integers, Sequences, FiniteSets, TLC

(***************************************************************************)
(* Program constants                                                       *)
(***************************************************************************)
TIMEOUT_MS == 5000

DEBOUNCE_MS == 500

MAX_STOCKS == 5

(***************************************************************************)
(* Bounds of the model                                                     *)
(***************************************************************************)
\* The clock advances by at most DEBOUNCE_MS \div TicksPerDebounce at a time.
TicksPerDebounce == 2

\* Quote fetches of one symbol in flight at the same time.
MaxInFlight == 2

\* Date.now() returns 1..MaxClock.
MaxClock == 2

\* The fragments a failure text is made of, at most.
MaxFragments == 3

TickMs == DEBOUNCE_MS \div TicksPerDebounce

(***************************************************************************)
(* String methods                                                          *)
(***************************************************************************)
UpperCaseLetters == "ABCDEFGHIJKLMNOPQRSTUVWXYZ"

LowerCaseLetters == "abcdefghijklmnopqrstuvwxyz"

\* The white space String.prototype.trim strips (the part that a text input yields).
WhiteSpace == {" ", "\t", "\n", "\r"}

CharAt(s, i) == SubSeq(s, i, i)

LowerChar(c) ==
    IF \E i \in 1..26 : CharAt(UpperCaseLetters, i) = c
    THEN CharAt(LowerCaseLetters, CHOOSE i \in 1..26 : CharAt(UpperCaseLetters, i) = c)
    ELSE c

\* Every character mapped by LowerChar (the text is split in halves to keep the
\* evaluation shallow).
RECURSIVE toLowerCase(_)
toLowerCase(s) ==
    IF Len(s) = 0 THEN ""
    ELSE IF Len(s) = 1 THEN LowerChar(s)
    ELSE toLowerCase(SubSeq(s, 1, Len(s) \div 2))
         \o toLowerCase(SubSeq(s, (Len(s) \div 2) + 1, Len(s)))

includes(s, sub) ==
    \E i \in 1..(Len(s) - Len(sub) + 1) : SubSeq(s, i, i + Len(sub) - 1) = sub

startsWith(s, prefix) ==
    /\ Len(prefix) <= Len(s)
    /\ SubSeq(s, 1, Len(prefix)) = prefix

RECURSIVE trimStart(_)
trimStart(s) ==
    IF Len(s) > 0 /\ CharAt(s, 1) \in WhiteSpace
    THEN trimStart(SubSeq(s, 2, Len(s)))
    ELSE s

RECURSIVE trimEnd(_)
trimEnd(s) ==
    IF Len(s) > 0 /\ CharAt(s, Len(s)) \in WhiteSpace
    THEN trimEnd(SubSeq(s, 1, Len(s) - 1))
    ELSE s

trim(s) == trimEnd(trimStart(s))

(***************************************************************************)
(* api.js: mock data                                                       *)
(***************************************************************************)
SearchResult(symbol, name) == [symbol |-> symbol, name |-> name]

\* Object.keys order is the insertion order of the literal.
MOCK_SEARCH_KEYS == <<"aapl", "googl", "msft", "tsla", "amzn", "nvda", "meta">>

MOCK_SEARCH_DATA(key) ==
    CASE key = "aapl"  -> <<SearchResult("AAPL", "Apple Inc"),
                            SearchResult("AAPLX", "Apple Hospitality REIT")>>
      [] key = "googl" -> <<SearchResult("GOOGL", "Alphabet Inc - Class A")>>
      [] key = "msft"  -> <<SearchResult("MSFT", "Microsoft Corp")>>
      [] key = "tsla"  -> <<SearchResult("TSLA", "Tesla Inc")>>
      [] key = "amzn"  -> <<SearchResult("AMZN", "Amazon.com Inc")>>
      [] key = "nvda"  -> <<SearchResult("NVDA", "NVIDIA Corp")>>
      [] key = "meta"  -> <<SearchResult("META", "Meta Platforms Inc")>>

Quote(price, change, changePct) ==
    [price |-> price, change |-> change, changePct |-> changePct]

MOCK_QUOTE_SYMBOLS == {"AAPL", "GOOGL", "MSFT", "TSLA", "AMZN", "NVDA", "META"}

MOCK_QUOTE_DATA(symbol) ==
    CASE symbol = "AAPL"  -> Quote("228.87", "2.45", "1.08%")
      [] symbol = "GOOGL" -> Quote("189.25", "-1.30", "-0.68%")
      [] symbol = "MSFT"  -> Quote("409.18", "5.20", "1.29%")
      [] symbol = "TSLA"  -> Quote("350.40", "-8.75", "-2.44%")
      [] symbol = "AMZN"  -> Quote("229.10", "3.60", "1.60%")
      [] symbol = "NVDA"  -> Quote("132.65", "1.90", "1.45%")
      [] symbol = "META"  -> Quote("612.00", "-4.10", "-0.67%")

GenericMockQuote == Quote("100.00", "0.50", "0.50%")

(***************************************************************************)
(* api.js: outcomes of a call.  A call returns a value or throws an error  *)
(* with a name ("Error", "AbortError", "TypeError", "SyntaxError") and a   *)
(* message.                                                                *)
(***************************************************************************)
Returned(value) == [ok |-> TRUE, value |-> value]

Thrown(name, message) == [ok |-> FALSE, name |-> name, message |-> message]

MsgTimeout == "Connection timed out. Please try again."

MsgRateLimited == "Too many requests. Try again in 1 minute."

MsgConfiguration == "Configuration error. Please contact support."

MsgNotFound == "Symbol not found. Check your spelling."

MsgUnknown == "Something went wrong. Please try again."

\* isRateLimited without text.toLowerCase(): the phrases matched as they are written.
isRateLimitedCaseSensitive(text) ==
    \/ includes(text, "thank you for your patience")
    \/ includes(text, "call frequency")
    \/ includes(text, "premium")
    \/ includes(text, "rate limit")
    \/ includes(text, "too many")

isRateLimited(text) ==
    LET lower == toLowerCase(text)
    IN  \/ includes(lower, "thank you for your patience")
        \/ includes(lower, "call frequency")
        \/ includes(lower, "premium")
        \/ includes(lower, "rate limit")
        \/ includes(lower, "too many")

\* parseError with the tests of NotFound and ConfigurationError in the other order.
parseErrorNotFoundFirst(errMessage, rawBody) ==
    LET combined == errMessage \o " " \o rawBody
    IN  IF includes(combined, "timeout") THEN MsgTimeout
        ELSE IF includes(combined, "429") \/ isRateLimited(combined) THEN MsgRateLimited
        ELSE IF includes(combined, "not found") \/ includes(combined, "No data")
             THEN MsgNotFound
        ELSE IF includes(combined, "Invalid API") \/ includes(combined, "invalid")
             THEN MsgConfiguration
        ELSE MsgUnknown

\* parseError without its tests: every failure gets the message of Unknown.
parseErrorUnclassified(errMessage, rawBody) == MsgUnknown

parseError(errMessage, rawBody) ==
    LET combined == errMessage \o " " \o rawBody
    IN  IF includes(combined, "timeout") THEN MsgTimeout
        ELSE IF includes(combined, "429") \/ isRateLimited(combined) THEN MsgRateLimited
        ELSE IF includes(combined, "Invalid API") \/ includes(combined, "invalid")
             THEN MsgConfiguration
        ELSE IF includes(combined, "not found") \/ includes(combined, "No data")
             THEN MsgNotFound
        ELSE MsgUnknown

\* getMockSearchResults looking for a key the keyword starts with.
getMockSearchResultsKeyIsPrefix(keyword) ==
    LET key == toLowerCase(keyword)
        exact == \E i \in 1..Len(MOCK_SEARCH_KEYS) : MOCK_SEARCH_KEYS[i] = key
        hits == {i \in 1..Len(MOCK_SEARCH_KEYS) : startsWith(key, MOCK_SEARCH_KEYS[i])}
        partial == CHOOSE i \in hits : \A j \in hits : i <= j
    IN  IF exact THEN Returned(MOCK_SEARCH_DATA(key))
        ELSE IF hits # {} THEN Returned(MOCK_SEARCH_DATA(MOCK_SEARCH_KEYS[partial]))
        ELSE Thrown("Error", MsgNotFound)

getMockSearchResults(keyword) ==
    LET key == toLowerCase(keyword)
        exact == \E i \in 1..Len(MOCK_SEARCH_KEYS) : MOCK_SEARCH_KEYS[i] = key
        hits == {i \in 1..Len(MOCK_SEARCH_KEYS) : startsWith(MOCK_SEARCH_KEYS[i], key)}
        partial == CHOOSE i \in hits : \A j \in hits : i <= j
    IN  IF exact THEN Returned(MOCK_SEARCH_DATA(key))
        ELSE IF hits # {} THEN Returned(MOCK_SEARCH_DATA(MOCK_SEARCH_KEYS[partial]))
        ELSE Thrown("Error", MsgNotFound)

getMockQuote(symbol) ==
    IF symbol \in MOCK_QUOTE_SYMBOLS THEN MOCK_QUOTE_DATA(symbol) ELSE GenericMockQuote


(***************************************************************************)
(* The upstream provider's response body: the raw text and what JSON.parse *)
(* makes of it.  An absent or empty field is "", as both are falsy.        *)
(***************************************************************************)
NoQuote == [present |-> FALSE, price |-> "", change |-> "", changePct |-> ""]

RawQuote(price, change, changePct) ==
    [present |-> TRUE, price |-> price, change |-> change, changePct |-> changePct]

RECURSIVE MatchesText(_)
MatchesText(matches) ==
    IF matches = <<>> THEN ""
    ELSE "{\"1. symbol\": \"" \o Head(matches).symbol \o "\", \"2. name\": \""
         \o Head(matches).name \o "\"}" \o MatchesText(Tail(matches))

\* { "bestMatches": [ { "1. symbol", "2. name" }, ... ] }
MatchesBody(matches) ==
    [json |-> TRUE, Information |-> "", Note |-> "", bestMatches |-> matches,
     quote |-> NoQuote,
     raw |-> "{\"bestMatches\": [" \o MatchesText(matches) \o "]}"]

\* { "Information": ..., "Note": ... }, either field possibly absent
NoticeBody(information, note) ==
    [json |-> TRUE, Information |-> information, Note |-> note, bestMatches |-> <<>>,
     quote |-> NoQuote,
     raw |-> "{" \o (IF information = "" THEN ""
                     ELSE "\"Information\": \"" \o information \o "\"")
                 \o (IF note = "" THEN "" ELSE "\"Note\": \"" \o note \o "\"") \o "}"]

\* { "Global Quote": { "05. price", "08. change", "10. change percent" } }
QuoteBody(quote) ==
    [json |-> TRUE, Information |-> "", Note |-> "", bestMatches |-> <<>>,
     quote |-> quote,
     raw |-> "{\"Global Quote\": {"
             \o (IF quote.price = "" THEN "" ELSE "\"05. price\": \"" \o quote.price \o "\"")
             \o (IF quote.change = "" THEN "" ELSE "\"08. change\": \"" \o quote.change \o "\"")
             \o (IF quote.changePct = "" THEN ""
                 ELSE "\"10. change percent\": \"" \o quote.changePct \o "\"")
             \o "}}"]

\* {} : valid JSON with none of the fields
EmptyObjectBody ==
    [json |-> TRUE, Information |-> "", Note |-> "", bestMatches |-> <<>>,
     quote |-> NoQuote, raw |-> "{}"]

\* a body JSON.parse rejects (an HTML error page, a truncated document)
TextBody(text) ==
    [json |-> FALSE, Information |-> "", Note |-> "", bestMatches |-> <<>>,
     quote |-> NoQuote, raw |-> text]

\* The message of the SyntaxError JSON.parse throws.
JsonSyntaxMessage(raw) ==
    IF Len(raw) = 0 THEN "Unexpected end of JSON input"
    ELSE "Unexpected token " \o CharAt(raw, 1) \o " in JSON at position 0"

\* The message of the TypeError a failed fetch or body read rejects with.
NetworkErrorMessage == "Failed to fetch"

AbortError == Thrown("AbortError", "The user aborted a request.")

(***************************************************************************)
(* api.js: searchSymbol                                                    *)
(***************************************************************************)
\* json['Information'] || json['Note']
NoticeMessage(body) == IF body.Information # "" THEN body.Information ELSE body.Note

\* The catch block of searchSymbol without its test of err.name, as fetchQuote's is.
searchSymbolCatchWithoutAbortTest(err, rawBody) ==
    IF err.message = MsgNotFound THEN err
    ELSE Thrown("Error", parseError(err.message, rawBody))

\* The catch block of searchSymbol.
searchSymbolCatch(err, rawBody) ==
    IF err.name = "AbortError" THEN err
    ELSE IF err.message = MsgNotFound THEN err
    ELSE Thrown("Error", parseError(err.message, rawBody))

\* The try block of searchSymbol from JSON.parse on: what it returns or throws.
searchSymbolTry(keyword, body) ==
    IF ~body.json THEN Thrown("SyntaxError", JsonSyntaxMessage(body.raw))
    ELSE IF body.Information # "" \/ body.Note # ""
    THEN IF isRateLimited(NoticeMessage(body))
         THEN getMockSearchResults(keyword)
         ELSE Thrown("Error", NoticeMessage(body))
    ELSE IF Len(body.bestMatches) = 0 THEN Thrown("Error", MsgNotFound)
    ELSE Returned(body.bestMatches)

\* searchSymbol once the body has been read.
searchSymbolBody(keyword, body) ==
    LET r == searchSymbolTry(keyword, body)
    IN  IF r.ok THEN r ELSE searchSymbolCatch(r, body.raw)

\* searchSymbol when fetchWithTimeout or res.text() throws err.
searchSymbolFailed(err, rawBody) == searchSymbolCatch(err, rawBody)

(***************************************************************************)
(* api.js: fetchQuote                                                      *)
(***************************************************************************)
DecimalDigits == "0123456789"

IsDigit(c) == \E i \in 1..10 : CharAt(DecimalDigits, i) = c

DigitValue(c) == (CHOOSE i \in 1..10 : CharAt(DecimalDigits, i) = c) - 1

RECURSIVE LeadingDigits(_)
LeadingDigits(s) ==
    IF Len(s) > 0 /\ IsDigit(CharAt(s, 1))
    THEN CharAt(s, 1) \o LeadingDigits(SubSeq(s, 2, Len(s)))
    ELSE ""

RECURSIVE DigitsToNat(_)
DigitsToNat(s) ==
    IF Len(s) = 0 THEN 0
    ELSE 10 * DigitsToNat(SubSeq(s, 1, Len(s) - 1)) + DigitValue(CharAt(s, Len(s)))

RECURSIVE NatToDigits(_)
NatToDigits(n) ==
    IF n < 10 THEN CharAt(DecimalDigits, n + 1)
    ELSE NatToDigits(n \div 10) \o CharAt(DecimalDigits, (n % 10) + 1)

\* parseFloat(text).toFixed(2) of a decimal numeral: the sign, the whole part and the
\* fraction rounded to two digits; "NaN" when the text does not start with a number.
\* (Decimal rounding: the binary representation error of a numeral that lies exactly
\* halfway is not modelled.)
toFixed2(text) ==
    LET negative == Len(text) > 0 /\ CharAt(text, 1) = "-"
        signed   == Len(text) > 0 /\ CharAt(text, 1) \in {"-", "+"}
        rest     == IF signed THEN SubSeq(text, 2, Len(text)) ELSE text
        whole    == LeadingDigits(rest)
        after    == SubSeq(rest, Len(whole) + 1, Len(rest))
        fraction == IF Len(after) > 0 /\ CharAt(after, 1) = "."
                    THEN LeadingDigits(SubSeq(after, 2, Len(after)))
                    ELSE ""
        padded   == fraction \o "000"
        cents    == 100 * DigitsToNat(whole) + DigitsToNat(SubSeq(padded, 1, 2))
                    + (IF DigitValue(CharAt(padded, 3)) >= 5 THEN 1 ELSE 0)
        centsPart == cents % 100
    IN  IF Len(whole) = 0 /\ Len(fraction) = 0 THEN "NaN"
        ELSE (IF negative THEN "-" ELSE "") \o NatToDigits(cents \div 100) \o "."
             \o (IF centsPart < 10 THEN "0" ELSE "") \o NatToDigits(centsPart)

\* The catch block of fetchQuote.
fetchQuoteCatch(err, rawBody) ==
    IF err.message = MsgNotFound THEN err
    ELSE Thrown("Error", parseError(err.message, rawBody))

\* The try block of fetchQuote from JSON.parse on: what it returns or throws.
fetchQuoteTry(symbol, body) ==
    IF ~body.json THEN Thrown("SyntaxError", JsonSyntaxMessage(body.raw))
    ELSE IF body.Information # "" \/ body.Note # ""
    THEN IF isRateLimited(NoticeMessage(body))
         THEN Returned(getMockQuote(symbol))
         ELSE Thrown("Error", NoticeMessage(body))
    ELSE IF ~body.quote.present \/ body.quote.price = ""
    THEN Thrown("Error", MsgNotFound)
    ELSE Returned(Quote(toFixed2(body.quote.price), toFixed2(body.quote.change),
                        IF body.quote.changePct # "" THEN body.quote.changePct
                        ELSE "0.00%"))

\* fetchQuote once the body has been read.
fetchQuoteBody(symbol, body) ==
    LET r == fetchQuoteTry(symbol, body)
    IN  IF r.ok THEN r ELSE fetchQuoteCatch(r, body.raw)

\* fetchQuote when fetchWithTimeout or res.text() throws err.
fetchQuoteFailed(err, rawBody) == fetchQuoteCatch(err, rawBody)

(***************************************************************************)
(* api.js: fetchWithTimeout.  What it throws when fetch rejects: the       *)
(* caller's signal was aborted, the timeout timer aborted the request, or  *)
(* the network failed.                                                     *)
(***************************************************************************)
fetchWithTimeoutCatch(err, externalAborted) ==
    IF externalAborted THEN err
    ELSE IF err.name = "AbortError" THEN Thrown("Error", "timeout")
    ELSE err

(***************************************************************************)
(* State                                                                   *)
(***************************************************************************)
VARIABLES
    mounted,          \* "no" before the first render, "yes", then "gone" after unmount
    input,            \* SearchBar: input
    results,          \* SearchBar: results
    loading,          \* SearchBar: loading
    error,            \* SearchBar: error (Null or a message)
    timers,           \* the pending setTimeout timers of SearchBar: [id, value, remaining]
    debounceTimer,    \* SearchBar: debounceTimer.current (0 is null, else a timer id)
    abortController,  \* SearchBar: abortController.current is set
    calls,            \* the searchSymbol calls in flight, oldest first
    sinceChange,      \* ms since the most recent input change, up to DEBOUNCE_MS
    burst,            \* the current burst of input changes (each arriving while the
                      \* timer of the previous one is pending): its latest text, how
                      \* many changes it counts (up to 2), the keywords of the search
                      \* calls issued since it began (up to 2), and whether a result
                      \* was selected and added since its latest change
    watchlist,        \* App: watchlist
    stockData,        \* App: stockData
    storage,          \* localStorage item 'watchlist'
    fetches,          \* the fetchStock calls in flight, oldest first, each with
                      \* whether a call for the same symbol made after it has settled
                      \* (followed in RaceSpec)
    clock,            \* the value Date.now() returns
    apiCall,          \* one call of the remote access layer, followed against the clock
    apiOutcome,       \* what that call returned or threw, once it has settled
    last              \* the step that led to this state (in RaceSpec: the
                      \* fetchStock call that settled most recently)

searchVars == <<input, results, loading, error, timers, debounceTimer,
                abortController, calls, sinceChange, burst>>

appVars == <<watchlist, stockData, storage, fetches, clock>>

apiVars == <<apiCall, apiOutcome>>

vars == <<mounted, searchVars, appVars, apiVars, last>>

Null == "<null>"

Undefined == "<undefined>"

(***************************************************************************)
(* Inputs                                                                  *)
(***************************************************************************)
\* What the user can make the search box hold.
Inputs == {"", " ", "ms", "zz"}

Symbols == {"AAPL", "MSFT"}

RateLimitNote ==
    "Our standard API call frequency is 5 calls per minute."

RateLimitInformation ==
    "Please subscribe to any of the PREMIUM plans to lift the API Rate Limit."

OtherInformation == "The demo API key is for demo purposes only."

\* Bodies the provider answers a SYMBOL_SEARCH with.
SearchBodies ==
    { MatchesBody(<<SearchResult("AAPL", "Apple Inc")>>),
      MatchesBody(<<>>),
      NoticeBody("", RateLimitNote),
      NoticeBody(OtherInformation, ""),
      TextBody("<html>429 Too Many Requests</html>") }

\* Bodies the provider answers a GLOBAL_QUOTE with.
QuoteBodies ==
    { QuoteBody(RawQuote("150.0000", "-1.2550", "0.67%")),
      QuoteBody(NoQuote),
      NoticeBody(RateLimitInformation, "") }

\* JSON.stringify of an array of strings (none of the symbols here holds a character
\* JSON escapes).
RECURSIVE JoinQuoted(_)
JoinQuoted(list) ==
    IF list = <<>> THEN ""
    ELSE "\"" \o Head(list) \o "\"" \o (IF Tail(list) = <<>> THEN "" ELSE ",")
         \o JoinQuoted(Tail(list))

JSONstringify(list) == "[" \o JoinQuoted(list) \o "]"

\* JSON.parse of the text of an array of strings: the strings between the quotes, from
\* place i on.
RECURSIVE ParseStrings(_, _, _, _, _)
ParseStrings(text, i, inString, current, acc) ==
    IF i > Len(text) THEN acc
    ELSE IF SubSeq(text, i, i) = "\""
    THEN IF inString THEN ParseStrings(text, i + 1, FALSE, "", Append(acc, current))
         ELSE ParseStrings(text, i + 1, TRUE, "", acc)
    ELSE IF inString THEN ParseStrings(text, i + 1, TRUE, current \o SubSeq(text, i, i), acc)
    ELSE ParseStrings(text, i + 1, FALSE, "", acc)

JSONparse(text) == ParseStrings(text, 1, FALSE, "", <<>>)

\* What localStorage holds under the key 'watchlist': nothing when the page loads for
\* the first time, else the text written by the persistence effect.
NoItem == [present |-> FALSE, text |-> ""]

Item(list) == [present |-> TRUE, text |-> JSONstringify(list)]

InitialStorage == {NoItem, Item(<<"AAPL", "MSFT">>)}

(***************************************************************************)
(* Helpers                                                                 *)
(***************************************************************************)
Min(S) == CHOOSE x \in S : \A y \in S : x <= y

Range(seq) == {seq[i] : i \in 1..Len(seq)}

RemoveAt(seq, i) == SubSeq(seq, 1, i - 1) \o SubSeq(seq, i + 1, Len(seq))

AbsentEntry ==
    [present |-> FALSE, price |-> Undefined, change |-> Undefined,
     changePct |-> Undefined, lastUpdated |-> 0, loading |-> FALSE, error |-> Undefined]

NoStep == [op |-> "none"]

NoApiCall ==
    [op |-> "none", arg |-> "", phase |-> "none", timerArmed |-> FALSE, remaining |-> 0,
     elapsed |-> 0, delivered |-> FALSE, timedOut |-> FALSE, aborted |-> FALSE,
     body |-> EmptyObjectBody]

NoApiOutcome == [ok |-> FALSE, name |-> "none", message |-> ""]

Init ==
    /\ mounted = "no"
    /\ input = ""
    /\ results = <<>>
    /\ loading = FALSE
    /\ error = Null
    /\ timers = {}
    /\ debounceTimer = 0
    /\ abortController = FALSE
    /\ calls = <<>>
    /\ sinceChange = DEBOUNCE_MS
    /\ burst = [text |-> "", changes |-> 0, issued |-> <<>>, selected |-> FALSE]
    /\ watchlist = <<>>
    /\ stockData = [s \in Symbols |-> AbsentEntry]
    /\ storage \in InitialStorage
    /\ fetches = <<>>
    /\ clock = 1
    /\ apiCall = NoApiCall
    /\ apiOutcome = NoApiOutcome
    /\ last = NoStep

(***************************************************************************)
(* App.jsx: the quote state                                                *)
(***************************************************************************)
\* fetchStock without its first setStockData: the entry is not marked.
MarkLoadingOmitted(sd, symbol) == sd

\* { ...prev, [symbol]: { ...(prev[symbol] || {}), loading: true, error: null } }
MarkLoading(sd, symbol) ==
    [sd EXCEPT ![symbol] = [@ EXCEPT !.present = TRUE, !.loading = TRUE, !.error = Null]]

\* { ...prev, [symbol]: { price, change, changePct, lastUpdated, loading: false, error: null } }
StoreQuote(sd, symbol, data, now) ==
    [sd EXCEPT ![symbol] =
        [present |-> TRUE, price |-> data.price, change |-> data.change,
         changePct |-> data.changePct, lastUpdated |-> now, loading |-> FALSE,
         error |-> Null]]

\* The error stored without ...(prev[symbol] || {}): the quote the entry held is lost.
StoreErrorDroppingQuote(sd, symbol, message) ==
    [sd EXCEPT ![symbol] =
        [present |-> TRUE, price |-> Undefined, change |-> Undefined,
         changePct |-> Undefined, lastUpdated |-> 0, loading |-> FALSE,
         error |-> message]]

\* The error stored without ...prev: { [symbol]: { loading: false, error: err.message } }
StoreErrorWithoutPrev(sd, symbol, message) ==
    [t \in DOMAIN sd |->
        IF t = symbol
        THEN [sd[t] EXCEPT !.present = TRUE, !.loading = FALSE, !.error = message]
        ELSE AbsentEntry]

\* { ...prev, [symbol]: { ...(prev[symbol] || {}), loading: false, error: err.message } }
StoreError(sd, symbol, message) ==
    [sd EXCEPT ![symbol] =
        [@ EXCEPT !.present = TRUE, !.loading = FALSE, !.error = message]]

\* delete next[symbol]
DeleteEntry(sd, symbol) == [sd EXCEPT ![symbol] = AbsentEntry]

NewFetch(symbol) == [symbol |-> symbol, overtaken |-> FALSE]

\* list.forEach((symbol) => fetchStock(symbol)) up to each call's await: the entries
RECURSIVE MarkLoadingAll(_, _)
MarkLoadingAll(sd, list) ==
    IF list = <<>> THEN sd
    ELSE MarkLoadingAll(MarkLoading(sd, Head(list)), Tail(list))

\* ... and the requests sent
RECURSIVE NewFetches(_)
NewFetches(list) ==
    IF list = <<>> THEN <<>> ELSE <<NewFetch(Head(list))>> \o NewFetches(Tail(list))

InFlight(symbol) == Cardinality({i \in 1..Len(fetches) : fetches[i].symbol = symbol})

\* The mount effects of App and SearchBar: the watchlist is read from localStorage by
\* the state initialiser, written back by the persistence effect, and one fetch is
\* requested for each symbol.
Mount ==
    /\ mounted = "no"
    /\ mounted' = "yes"
    /\ LET saved == IF storage.present /\ storage.text # ""
                    THEN JSONparse(storage.text) ELSE <<>>
       IN  /\ watchlist' = saved
           /\ storage' = Item(saved)
           /\ stockData' = MarkLoadingAll(stockData, saved)
           /\ fetches' = fetches \o NewFetches(saved)
    /\ UNCHANGED <<searchVars, clock, apiVars, last>>

\* handleAdd without its test of watchlist.includes(symbol).
handleAddAcceptsDuplicates(list, symbol) == ~(Len(list) >= MAX_STOCKS)

\* Whether handleAdd(symbol) goes past its guards.
handleAddAccepts(list, symbol) ==
    /\ ~(Len(list) >= MAX_STOCKS)
    /\ symbol \notin Range(list)

\* handleAdd(symbol), with the persistence effect of the render that follows.
handleAdd(symbol) ==
    IF handleAddAccepts(watchlist, symbol)
    THEN /\ watchlist' = Append(watchlist, symbol)
         /\ storage' = Item(watchlist')
         /\ stockData' = MarkLoading(stockData, symbol)
         /\ fetches' = Append(fetches, NewFetch(symbol))
    ELSE UNCHANGED <<watchlist, storage, stockData, fetches>>

\* onAdd(symbol) called by the search bar.
HandleAdd(symbol) ==
    /\ mounted = "yes"
    /\ InFlight(symbol) < MaxInFlight
    /\ handleAdd(symbol)
    /\ UNCHANGED <<mounted, searchVars, clock, apiVars, last>>

\* handleRemove with a persistence effect that does not run after a removal.
HandleRemoveNotPersisted(symbol) ==
    /\ mounted = "yes"
    /\ symbol \in Range(watchlist)
    /\ watchlist' = SelectSeq(watchlist, LAMBDA s : s # symbol)
    /\ stockData' = DeleteEntry(stockData, symbol)
    /\ UNCHANGED <<mounted, searchVars, storage, fetches, clock, apiVars, last>>

\* handleRemove(symbol), from the remove button of the symbol's card.
HandleRemove(symbol) ==
    /\ mounted = "yes"
    /\ symbol \in Range(watchlist)
    /\ watchlist' = SelectSeq(watchlist, LAMBDA s : s # symbol)
    /\ storage' = Item(watchlist')
    /\ stockData' = DeleteEntry(stockData, symbol)
    /\ UNCHANGED <<mounted, searchVars, fetches, clock, apiVars, last>>

\* handleRefreshAll, from the button shown while the watchlist is not empty.
HandleRefreshAll ==
    /\ mounted = "yes"
    /\ watchlist # <<>>
    /\ \A s \in Range(watchlist) : InFlight(s) < MaxInFlight
    /\ stockData' = MarkLoadingAll(stockData, watchlist)
    /\ fetches' = fetches \o NewFetches(watchlist)
    /\ UNCHANGED <<mounted, searchVars, watchlist, storage, clock, apiVars, last>>

\* The continuation of fetchStock after await fetchQuote(symbol) settles with outcome,
\* Date.now() returning now.  React drops a state update of an unmounted component.
fetchStockSettled(sd, symbol, outcome, now) ==
    IF outcome.ok THEN StoreQuote(sd, symbol, outcome.value, now)
    ELSE StoreError(sd, symbol, outcome.message)

\* What fetchQuote(symbol) returns or throws for each body: fetchQuoteBody, tabulated.
QuoteOutcomes == [s \in Symbols |-> [b \in QuoteBodies |-> fetchQuoteBody(s, b)]]

\* fetchQuote when the timeout timer aborts the request.
QuoteTimeoutOutcome == fetchQuoteFailed(fetchWithTimeoutCatch(AbortError, FALSE), "")

\* fetchQuote when fetch or res.text() rejects because the network failed.
QuoteNetworkOutcome ==
    fetchQuoteFailed(
        fetchWithTimeoutCatch(Thrown("TypeError", NetworkErrorMessage), FALSE), "")

\* fetchStock whose continuation drops the outcome of a call that a later call for the
\* same symbol has overtaken.
fetchStockResumesUnlessOvertaken(i, outcome) ==
    /\ \E now \in {clock, clock + 1} :
          /\ now <= MaxClock
          /\ clock' = now
          /\ stockData' = IF mounted = "yes" /\ ~fetches[i].overtaken
                          THEN fetchStockSettled(stockData, fetches[i].symbol, outcome, now)
                          ELSE stockData
    /\ UNCHANGED <<mounted, searchVars, watchlist, storage, apiVars>>

\* Call i of fetchStock resumes after its await: whatever calls were made or have
\* settled since it was made, its outcome is stored.
fetchStockResumes(i, outcome) ==
    /\ \E now \in {clock, clock + 1} :
          /\ now <= MaxClock
          /\ clock' = now
          /\ stockData' = IF mounted = "yes"
                          THEN fetchStockSettled(stockData, fetches[i].symbol, outcome, now)
                          ELSE stockData
    /\ UNCHANGED <<mounted, searchVars, watchlist, storage, apiVars>>

QuoteSettles(i, outcome) ==
    /\ fetchStockResumes(i, outcome)
    /\ fetches' = RemoveAt(fetches, i)
    /\ UNCHANGED last

\* The response arrives and res.text() resolves with the body.
QuoteBodyDelivered(i, body) ==
    /\ i \in 1..Len(fetches)
    /\ QuoteSettles(i, QuoteOutcomes[fetches[i].symbol][body])

\* The timeout timer fires while fetch is pending (this specification of the quote
\* state does not measure time: see CallSpec).
QuoteTimeout(i) ==
    /\ i \in 1..Len(fetches)
    /\ QuoteSettles(i, QuoteTimeoutOutcome)

\* fetch or res.text() rejects: the network failed.
QuoteRejected(i) ==
    /\ i \in 1..Len(fetches)
    /\ QuoteSettles(i, QuoteNetworkOutcome)

QuoteNext ==
    \/ Mount
    \/ \E s \in Symbols : HandleAdd(s)
    \/ \E s \in Symbols : HandleRemove(s)
    \/ HandleRefreshAll
    \/ \E i \in 1..Len(fetches), body \in QuoteBodies : QuoteBodyDelivered(i, body)
    \/ \E i \in 1..Len(fetches) : QuoteTimeout(i)
    \/ \E i \in 1..Len(fetches) : QuoteRejected(i)

QuoteSpec == Init /\ [][QuoteNext]_vars

(***************************************************************************)
(* App.jsx: the watchlist at its capacity.  Six symbols are on offer, so   *)
(* that a sixth can be added to a full watchlist; every fetch fails with   *)
(* the network down, MaxInFlight bounds the fetches in flight when a       *)
(* symbol is added, and the time of day is not followed.                   *)
(***************************************************************************)
ListSymbols == {"AAPL", "GOOGL", "MSFT", "TSLA", "AMZN", "NVDA"}

ListInitialStorage == {NoItem, Item(<<"AAPL", "GOOGL", "MSFT", "TSLA">>)}

ListInit ==
    /\ mounted = "no"
    /\ input = ""
    /\ results = <<>>
    /\ loading = FALSE
    /\ error = Null
    /\ timers = {}
    /\ debounceTimer = 0
    /\ abortController = FALSE
    /\ calls = <<>>
    /\ sinceChange = DEBOUNCE_MS
    /\ burst = [text |-> "", changes |-> 0, issued |-> <<>>, selected |-> FALSE]
    /\ watchlist = <<>>
    /\ stockData = [s \in ListSymbols |-> AbsentEntry]
    /\ storage \in ListInitialStorage
    /\ fetches = <<>>
    /\ clock = MaxClock
    /\ apiCall = NoApiCall
    /\ apiOutcome = NoApiOutcome
    /\ last = NoStep

\* handleAdd(symbol), called with any of the symbols on offer.
ListAdd(symbol) ==
    /\ mounted = "yes"
    /\ Len(fetches) < MaxInFlight
    /\ handleAdd(symbol)
    /\ UNCHANGED <<mounted, searchVars, clock, apiVars, last>>

ListNext ==
    \/ Mount
    \/ \E s \in ListSymbols : ListAdd(s)
    \/ \E s \in ListSymbols : HandleRemove(s)
    \/ \E i \in 1..Len(fetches) : QuoteRejected(i)

ListSpec == ListInit /\ [][ListNext]_vars

(***************************************************************************)
(* App.jsx: the fetches of one symbol, requested again while in flight.    *)
(* One symbol is watched, and each call in flight is followed with whether *)
(* a call made after it has settled before it.                             *)
(***************************************************************************)
RaceSymbol == "AAPL"

\* The calls left in flight when call i settles: the calls for the same symbol made
\* before it have been overtaken.
FetchesAfterSettled(fs, i) ==
    RemoveAt([j \in 1..Len(fs) |->
                 IF j < i /\ fs[j].symbol = fs[i].symbol
                 THEN [fs[j] EXCEPT !.overtaken = TRUE] ELSE fs[j]], i)

RaceSettles(i, outcome) ==
    /\ fetchStockResumes(i, outcome)
    /\ fetches' = FetchesAfterSettled(fetches, i)
    /\ last' = [op |-> "settled", symbol |-> fetches[i].symbol,
                overtaken |-> fetches[i].overtaken]

\* The response arrives and res.text() resolves with the body.
RaceBodyDelivered(i, body) ==
    /\ i \in 1..Len(fetches)
    /\ RaceSettles(i, QuoteOutcomes[fetches[i].symbol][body])

\* The timeout timer fires while fetch is pending.
RaceTimeout(i) ==
    /\ i \in 1..Len(fetches)
    /\ RaceSettles(i, QuoteTimeoutOutcome)

\* fetch or res.text() rejects: the network failed.
RaceRejected(i) ==
    /\ i \in 1..Len(fetches)
    /\ RaceSettles(i, QuoteNetworkOutcome)

RaceNext ==
    \/ Mount
    \/ HandleAdd(RaceSymbol)
    \/ HandleRemove(RaceSymbol)
    \/ HandleRefreshAll
    \/ \E i \in 1..Len(fetches), body \in QuoteBodies : RaceBodyDelivered(i, body)
    \/ \E i \in 1..Len(fetches) : RaceTimeout(i)
    \/ \E i \in 1..Len(fetches) : RaceRejected(i)

RaceInit ==
    /\ mounted = "no"
    /\ input = ""
    /\ results = <<>>
    /\ loading = FALSE
    /\ error = Null
    /\ timers = {}
    /\ debounceTimer = 0
    /\ abortController = FALSE
    /\ calls = <<>>
    /\ sinceChange = DEBOUNCE_MS
    /\ burst = [text |-> "", changes |-> 0, issued |-> <<>>, selected |-> FALSE]
    /\ watchlist = <<>>
    /\ stockData = [s \in Symbols |-> AbsentEntry]
    /\ storage \in {NoItem, Item(<<RaceSymbol>>)}
    /\ fetches = <<>>
    /\ clock = 1
    /\ apiCall = NoApiCall
    /\ apiOutcome = NoApiOutcome
    /\ last = NoStep

RaceSpec == RaceInit /\ [][RaceNext]_vars

(***************************************************************************)
(* SearchBar.jsx: the debounced search controller                          *)
(***************************************************************************)
\* clearTimeout given a stale id: every pending timer stays.
clearTimeoutStaleId(pending, id) == pending

\* clearTimeout(id): a timer that fired or was cleared is no longer pending.
clearTimeout(pending, id) == {t \in pending : t.id # id}

\* The id setTimeout returns: one no pending timer has.
NewTimerId(pending) ==
    Min({k \in 1..(Cardinality(pending) + 1) : \A t \in pending : t.id # k})

NewTimer(pending, value) ==
    [id |-> NewTimerId(pending), value |-> value, remaining |-> DEBOUNCE_MS]

\* handleChange without its clearTimeout(debounceTimer.current).
TimersAfterChangeKeepingPrevious(pending, ref, value) ==
    IF trim(value) = "" THEN pending ELSE pending \cup {NewTimer(pending, value)}

\* The timers pending after handleChange(value) and the timer it armed, if any.
TimersAfterChange(pending, ref, value) ==
    LET kept == IF ref # 0 THEN clearTimeout(pending, ref) ELSE pending
    IN  IF trim(value) = "" THEN kept ELSE kept \cup {NewTimer(kept, value)}

\* handleChange returning on an empty value without setResults([]).
ResultsAfterChangeKeepingShown(shown, value) == shown

\* The results displayed after handleChange(value): if (!value.trim()) setResults([]).
ResultsAfterChange(shown, value) == IF trim(value) = "" THEN <<>> ELSE shown

\* handleChange without the assignment of setTimeout's id to debounceTimer.current.
RefAfterChangeNotStored(pending, ref, value) == ref

\* debounceTimer.current after handleChange(value).
RefAfterChange(pending, ref, value) ==
    LET kept == IF ref # 0 THEN clearTimeout(pending, ref) ELSE pending
    IN  IF trim(value) = "" THEN ref ELSE NewTimerId(kept)

\* A searchSymbol call in flight.  current: abortController.current is the controller
\* whose signal the call was given.  superseded: the input has changed since the call
\* was issued.
NewCall(keyword) ==
    [keyword |-> keyword, phase |-> "fetch", current |-> TRUE, superseded |-> FALSE]

\* What searchSymbol(keyword, signal) returns or throws for each body: searchSymbolBody,
\* tabulated.
SearchOutcomes == [k \in Inputs |-> [b \in SearchBodies |-> searchSymbolBody(k, b)]]

\* searchSymbol when the timeout timer aborts the request.
SearchTimeoutOutcome == searchSymbolFailed(fetchWithTimeoutCatch(AbortError, FALSE), "")

\* searchSymbol when fetch rejects because the network failed.
SearchNetworkOutcome ==
    searchSymbolFailed(
        fetchWithTimeoutCatch(Thrown("TypeError", NetworkErrorMessage), FALSE), "")

\* searchSymbol when res.text() rejects because the network failed.
SearchBodyFailedOutcome ==
    searchSymbolFailed(Thrown("TypeError", NetworkErrorMessage), "")

\* searchSymbol when the caller's signal is aborted: fetch rejects inside
\* fetchWithTimeout, or res.text() rejects, with the AbortError.
SearchAbortOutcome(phase) ==
    IF phase = "fetch" THEN searchSymbolFailed(fetchWithTimeoutCatch(AbortError, TRUE), "")
    ELSE searchSymbolFailed(AbortError, "")

\* The displayed state the timer callback leaves when its await settles with outcome.
View == [results |-> results, error |-> error, loading |-> loading]

\* The catch block without its test of err.name: every failure is displayed.
onSettledShowingAbort(view, outcome) ==
    IF outcome.ok
    THEN [view EXCEPT !.results = outcome.value, !.loading = FALSE]
    ELSE [view EXCEPT !.error = outcome.message, !.results = <<>>, !.loading = FALSE]

onSettled(view, outcome) ==
    IF outcome.ok
    THEN [view EXCEPT !.results = outcome.value, !.loading = FALSE]
    ELSE IF outcome.name # "AbortError"
    THEN [view EXCEPT !.error = outcome.message, !.results = <<>>, !.loading = FALSE]
    ELSE [view EXCEPT !.loading = FALSE]

\* The timer callback without abortController.current.abort(): no call is cancelled.
abortOmitted(cs) == [cancelled |-> <<>>, left |-> cs]

\* abortController.current.abort(): the calls given that controller's signal are
\* cancelled (each rejects with the AbortError), the others stay in flight.
abort(cs) ==
    [cancelled |-> SelectSeq(cs, LAMBDA c : c.current),
     left      |-> SelectSeq(cs, LAMBDA c : ~c.current)]

\* if (abortController.current) abortController.current.abort()
abortIfSet(ref, cs) == IF ref THEN abort(cs) ELSE [cancelled |-> <<>>, left |-> cs]

\* The continuations of the cancelled calls, run as microtasks one after the other.
RECURSIVE onAllAborted(_, _)
onAllAborted(view, cs) ==
    IF cs = <<>> THEN view
    ELSE onAllAborted(onSettled(view, SearchAbortOutcome(Head(cs).phase)), Tail(cs))

\* What the step applied to the displayed state.
Applied(outcome) ==
    IF outcome.ok THEN "results"
    ELSE IF outcome.name # "AbortError" THEN "error" ELSE "nothing"

\* handleChange: the user edits the text of the search box to value.
HandleChange(value) ==
    /\ mounted = "yes"
    /\ value \in Inputs
    /\ value # input
    /\ input' = value
    /\ error' = Null
    /\ timers' = TimersAfterChange(timers, debounceTimer, value)
    /\ debounceTimer' = RefAfterChange(timers, debounceTimer, value)
    /\ results' = ResultsAfterChange(results, value)
    /\ calls' = [i \in 1..Len(calls) |-> [calls[i] EXCEPT !.superseded = TRUE]]
    /\ sinceChange' = 0
    /\ burst' = IF timers # {}
                THEN [burst EXCEPT !.text = value,
                                   !.changes = IF @ < 2 THEN @ + 1 ELSE @,
                                   !.selected = FALSE]
                ELSE [text |-> value, changes |-> 1, issued |-> <<>>, selected |-> FALSE]
    /\ last' = [op |-> "change", value |-> value, armed |-> Cardinality(timers),
                hadResults |-> results # <<>>]
    /\ UNCHANGED <<mounted, loading, abortController, appVars, apiVars>>

\* Time passes, up to the next timer's expiry; a timer that is due fires first.
Tick ==
    /\ \A t \in timers : t.remaining > 0
    /\ sinceChange < DEBOUNCE_MS \/ timers # {}
    /\ LET d == Min({TickMs} \cup {t.remaining : t \in timers})
       IN  /\ timers' = {[t EXCEPT !.remaining = @ - d] : t \in timers}
           /\ sinceChange' = IF sinceChange + d > DEBOUNCE_MS THEN DEBOUNCE_MS
                             ELSE sinceChange + d
    /\ last' = [op |-> "tick"]
    /\ UNCHANGED <<mounted, input, results, loading, error, debounceTimer,
                   abortController, calls, burst, appVars, apiVars>>

\* abortController.current = new AbortController(), its signal given to the new call.
CallsAfterIssue(left, keyword) ==
    Append([i \in 1..Len(left) |-> [left[i] EXCEPT !.current = FALSE]], NewCall(keyword))

\* The timer callback of handleChange(value), DEBOUNCE_MS after it was armed: it cancels
\* the previous call, whose continuation runs when the callback reaches its await, and
\* issues searchSymbol(value, signal).
DebounceFires(t) ==
    /\ t \in timers
    /\ t.remaining = 0
    /\ timers' = timers \ {t}
    /\ abortController' = TRUE
    /\ LET a == abortIfSet(abortController, calls)
           view == IF mounted = "yes"
                   THEN onAllAborted([View EXCEPT !.loading = TRUE], a.cancelled)
                   ELSE View
       IN  /\ calls' = CallsAfterIssue(a.left, t.value)
           /\ results' = view.results
           /\ error' = view.error
           /\ loading' = view.loading
           /\ last' = [op |-> "issue", keyword |-> t.value, quiet |-> sinceChange,
                       cancelled |-> Len(a.cancelled)]
    /\ burst' = [burst EXCEPT !.issued = IF Len(@) < 2 THEN Append(@, t.value) ELSE @]
    /\ UNCHANGED <<mounted, input, debounceTimer, sinceChange, appVars, apiVars>>

\* The await of the timer callback settles with outcome for the call at place i.
SearchSettles(i, outcome) ==
    /\ calls' = RemoveAt(calls, i)
    /\ LET view == IF mounted = "yes" THEN onSettled(View, outcome) ELSE View
       IN  /\ results' = view.results
           /\ error' = view.error
           /\ loading' = view.loading
    /\ last' = [op |-> "settle", keyword |-> calls[i].keyword,
                superseded |-> calls[i].superseded, current |-> calls[i].current,
                applied |-> IF mounted = "yes" THEN Applied(outcome) ELSE "nothing",
                outcome |-> outcome]
    /\ UNCHANGED <<mounted, input, timers, debounceTimer, abortController, sinceChange,
                   burst, appVars, apiVars>>

\* fetch resolves with the response (status line and headers): fetchWithTimeout clears
\* its timer and returns, and res.text() starts reading the body.
SearchHeaders(i) ==
    /\ i \in 1..Len(calls)
    /\ calls[i].phase = "fetch"
    /\ calls' = [calls EXCEPT ![i].phase = "body"]
    /\ last' = [op |-> "headers"]
    /\ UNCHANGED <<mounted, input, results, loading, error, timers, debounceTimer,
                   abortController, sinceChange, burst, appVars, apiVars>>

\* The timeout timer of fetchWithTimeout fires while fetch is pending (this
\* specification does not measure the calls' time: see CallSpec).
SearchTimeout(i) ==
    /\ i \in 1..Len(calls)
    /\ calls[i].phase = "fetch"
    /\ SearchSettles(i, SearchTimeoutOutcome)

\* fetch rejects: the network failed.
SearchRejected(i) ==
    /\ i \in 1..Len(calls)
    /\ calls[i].phase = "fetch"
    /\ SearchSettles(i, SearchNetworkOutcome)

\* res.text() resolves with the body.
SearchBodyDelivered(i, body) ==
    /\ i \in 1..Len(calls)
    /\ calls[i].phase = "body"
    /\ SearchSettles(i, SearchOutcomes[calls[i].keyword][body])

\* res.text() rejects: the connection broke while the body was read.
SearchBodyFailed(i) ==
    /\ i \in 1..Len(calls)
    /\ calls[i].phase = "body"
    /\ SearchSettles(i, SearchBodyFailedOutcome)

\* handleSelect(symbol): the user clicks a displayed result.
HandleSelect(symbol) ==
    /\ mounted = "yes"
    /\ \E i \in 1..Len(results) : results[i].symbol = symbol
    /\ symbol \in Symbols
    /\ InFlight(symbol) < MaxInFlight
    /\ IF symbol \in Range(watchlist) \/ Len(watchlist) >= 5
       THEN UNCHANGED <<input, results, burst, appVars>>
       ELSE /\ handleAdd(symbol)
            /\ results' = <<>>
            /\ input' = ""
            /\ burst' = [burst EXCEPT !.selected = TRUE]
            /\ UNCHANGED clock
    /\ last' = [op |-> "select", symbol |-> symbol]
    /\ UNCHANGED <<mounted, loading, error, timers, debounceTimer, abortController,
                   calls, sinceChange, apiVars>>

\* The cleanup without abortController.current.abort(): the calls stay in flight.
CallsAfterUnmountNotAborted(ref, cs) == cs

\* if (abortController.current) abortController.current.abort(), on unmount
CallsAfterUnmount(ref, cs) == abortIfSet(ref, cs).left

\* if (debounceTimer.current) clearTimeout(debounceTimer.current), on unmount
TimersAfterUnmount(pending, ref) ==
    IF ref # 0 THEN clearTimeout(pending, ref) ELSE pending

\* The cleanup of SearchBar's effect, on unmount.  The continuation of a cancelled call
\* sets the state of an unmounted component, which React drops.
Unmount ==
    /\ mounted = "yes"
    /\ mounted' = "gone"
    /\ timers' = TimersAfterUnmount(timers, debounceTimer)
    /\ calls' = CallsAfterUnmount(abortController, calls)
    /\ last' = [op |-> "unmount", timers |-> Cardinality(timers), calls |-> Len(calls)]
    /\ UNCHANGED <<input, results, loading, error, debounceTimer, abortController,
                   sinceChange, burst, appVars, apiVars>>

SearchNext ==
    \/ Mount
    \/ \E value \in Inputs : HandleChange(value)
    \/ Tick
    \/ \E t \in timers : DebounceFires(t)
    \/ \E i \in 1..Len(calls) : SearchHeaders(i)
    \/ \E i \in 1..Len(calls) : SearchTimeout(i)
    \/ \E i \in 1..Len(calls) : SearchRejected(i)
    \/ \E i \in 1..Len(calls), body \in SearchBodies : SearchBodyDelivered(i, body)
    \/ \E i \in 1..Len(calls) : SearchBodyFailed(i)
    \/ \E symbol \in Symbols : HandleSelect(symbol)
    \/ Unmount

SearchSpec == Init /\ [][SearchNext]_vars

(***************************************************************************)
(* api.js: one call of searchSymbol or fetchQuote against the clock        *)
(***************************************************************************)
\* The calls followed: searchSymbol(keyword, signal) and fetchQuote(symbol).
ApiCalls ==
    {[op |-> "search", arg |-> k] : k \in {"ms", "MSFT", "zz", "tsla ", "A"}}
    \cup {[op |-> "quote", arg |-> sym] : sym \in {"AAPL", "ZZZZ"}}

\* Bodies the provider may answer with.
ApiBodies ==
    { MatchesBody(<<SearchResult("AAPL", "Apple Inc")>>),
      MatchesBody(<<>>),
      QuoteBody(RawQuote("150.0000", "-1.2550", "0.67%")),
      QuoteBody(RawQuote("", "", "")),
      QuoteBody(NoQuote),
      NoticeBody("", RateLimitNote),
      NoticeBody(RateLimitInformation, ""),
      NoticeBody("", "THANK YOU FOR YOUR PATIENCE"),
      NoticeBody("Too Many requests", ""),
      NoticeBody(OtherInformation, ""),
      NoticeBody(OtherInformation, RateLimitNote),
      NoticeBody("Invalid API call.", ""),
      EmptyObjectBody,
      TextBody("<html>429 Too Many Requests</html>") }

\* fetchWithTimeout: setTimeout(() => controller.abort(), TIMEOUT_MS), then fetch.
IssuedCall(c) ==
    [op |-> c.op, arg |-> c.arg, phase |-> "fetch", timerArmed |-> TRUE,
     remaining |-> TIMEOUT_MS, elapsed |-> 0, delivered |-> FALSE, timedOut |-> FALSE,
     aborted |-> FALSE, body |-> EmptyObjectBody]

CallInit ==
    /\ mounted = "no"
    /\ input = ""
    /\ results = <<>>
    /\ loading = FALSE
    /\ error = Null
    /\ timers = {}
    /\ debounceTimer = 0
    /\ abortController = FALSE
    /\ calls = <<>>
    /\ sinceChange = DEBOUNCE_MS
    /\ burst = [text |-> "", changes |-> 0, issued |-> <<>>, selected |-> FALSE]
    /\ watchlist = <<>>
    /\ stockData = [s \in Symbols |-> AbsentEntry]
    /\ storage = NoItem
    /\ fetches = <<>>
    /\ clock = 1
    /\ apiCall \in {IssuedCall(c) : c \in ApiCalls}
    /\ apiOutcome = NoApiOutcome
    /\ last = NoStep

CallPending == apiCall.phase \in {"fetch", "body"}

\* What the call's catch block makes of err.
ApiFailed(op, err, rawBody) ==
    IF op = "search" THEN searchSymbolFailed(err, rawBody)
    ELSE fetchQuoteFailed(err, rawBody)

\* What the call makes of the body.
ApiBody(op, arg, body) ==
    IF op = "search" THEN searchSymbolBody(arg, body) ELSE fetchQuoteBody(arg, body)

CallSettles(outcome) ==
    /\ apiCall' = [apiCall EXCEPT !.phase = "settled", !.timerArmed = FALSE,
                                  !.remaining = 0]
    /\ apiOutcome' = outcome

\* Time passes while the call is pending, up to the expiry of its timer; a timer that
\* is due fires first.
CallTick ==
    /\ CallPending
    /\ ~(apiCall.timerArmed /\ apiCall.remaining = 0)
    /\ LET d == IF apiCall.timerArmed THEN Min({TickMs, apiCall.remaining}) ELSE TickMs
       IN  apiCall' = [apiCall EXCEPT
                          !.remaining = IF apiCall.timerArmed THEN @ - d ELSE @,
                          !.elapsed = IF @ + d > TIMEOUT_MS + TickMs
                                      THEN TIMEOUT_MS + TickMs ELSE @ + d]
    /\ UNCHANGED <<mounted, searchVars, appVars, apiOutcome, last>>

\* fetch resolves with the response (status line and headers): clearTimeout(timeoutId),
\* return res; the caller starts res.text().
CallHeaders ==
    /\ apiCall.phase = "fetch"
    /\ apiCall' = [apiCall EXCEPT !.phase = "body", !.timerArmed = FALSE,
                                  !.remaining = 0]
    /\ UNCHANGED <<mounted, searchVars, appVars, apiOutcome, last>>

\* The timer fires: controller.abort() makes the pending fetch, or the pending body
\* read, reject with the AbortError.
CallTimeout ==
    /\ CallPending
    /\ apiCall.timerArmed
    /\ apiCall.remaining = 0
    /\ apiCall' = [apiCall EXCEPT !.phase = "settled", !.timerArmed = FALSE,
                                  !.timedOut = TRUE]
    /\ apiOutcome' = ApiFailed(apiCall.op,
                               IF apiCall.phase = "fetch"
                               THEN fetchWithTimeoutCatch(AbortError, FALSE)
                               ELSE AbortError, "")
    /\ UNCHANGED <<mounted, searchVars, appVars, last>>

\* fetch rejects: the network failed.
CallRejected ==
    /\ apiCall.phase = "fetch"
    /\ CallSettles(ApiFailed(apiCall.op,
           fetchWithTimeoutCatch(Thrown("TypeError", NetworkErrorMessage), FALSE), ""))
    /\ UNCHANGED <<mounted, searchVars, appVars, last>>

\* res.text() resolves with the complete body.
CallBody(body) ==
    /\ apiCall.phase = "body"
    /\ apiCall' = [apiCall EXCEPT !.phase = "settled", !.timerArmed = FALSE,
                                  !.remaining = 0, !.delivered = TRUE, !.body = body]
    /\ apiOutcome' = ApiBody(apiCall.op, apiCall.arg, body)
    /\ UNCHANGED <<mounted, searchVars, appVars, last>>

\* res.text() rejects: the connection broke while the body was read.
CallBodyFailed ==
    /\ apiCall.phase = "body"
    /\ CallSettles(ApiFailed(apiCall.op, Thrown("TypeError", NetworkErrorMessage), ""))
    /\ UNCHANGED <<mounted, searchVars, appVars, last>>

\* The caller of searchSymbol aborts the signal it passed (fetchQuote takes none).
CallAborted ==
    /\ CallPending
    /\ apiCall.op = "search"
    /\ apiCall' = [apiCall EXCEPT !.phase = "settled", !.timerArmed = FALSE,
                                  !.remaining = 0, !.aborted = TRUE]
    /\ apiOutcome' = ApiFailed(apiCall.op,
                               IF apiCall.phase = "fetch"
                               THEN fetchWithTimeoutCatch(AbortError, TRUE)
                               ELSE AbortError, "")
    /\ UNCHANGED <<mounted, searchVars, appVars, last>>

CallNext ==
    \/ CallTick
    \/ CallHeaders
    \/ CallTimeout
    \/ CallRejected
    \/ \E body \in ApiBodies : CallBody(body)
    \/ CallBodyFailed
    \/ CallAborted

CallSpec == CallInit /\ [][CallNext]_vars

(***************************************************************************)
(* api.js: parseError applied to failure texts.  A text is made of         *)
(* fragments, separated by blanks, that go to the error's message or to    *)
(* the raw body; kind is the place in the order of the tests of the phrase *)
(* a fragment holds (0: none), and the kinds of the fragments are kept     *)
(* beside the text.                                                        *)
(***************************************************************************)
Fragments ==
    { [text |-> "timeout", kind |-> 1],
      [text |-> "429", kind |-> 2],
      [text |-> "Rate Limit", kind |-> 2],
      [text |-> "Invalid API", kind |-> 3],
      [text |-> "invalid", kind |-> 3],
      [text |-> "not found", kind |-> 4],
      [text |-> "No data", kind |-> 4],
      [text |-> "Failed to fetch", kind |-> 0] }

NoText == [op |-> "classify", message |-> "", raw |-> "", kinds |-> {}, fragments |-> 0]

ClassifyInit ==
    /\ mounted = "no"
    /\ input = ""
    /\ results = <<>>
    /\ loading = FALSE
    /\ error = Null
    /\ timers = {}
    /\ debounceTimer = 0
    /\ abortController = FALSE
    /\ calls = <<>>
    /\ sinceChange = DEBOUNCE_MS
    /\ burst = [text |-> "", changes |-> 0, issued |-> <<>>, selected |-> FALSE]
    /\ watchlist = <<>>
    /\ stockData = [s \in Symbols |-> AbsentEntry]
    /\ storage = NoItem
    /\ fetches = <<>>
    /\ clock = 1
    /\ apiCall = NoText
    /\ apiOutcome = NoApiOutcome
    /\ last = NoStep

Joined(text, fragment) == IF text = "" THEN fragment ELSE text \o " " \o fragment

\* The failure's message holds one fragment more.
MessageGrows(f) ==
    /\ apiCall.fragments < MaxFragments
    /\ apiCall' = [apiCall EXCEPT !.message = Joined(@, f.text),
                                  !.kinds = @ \cup {f.kind},
                                  !.fragments = @ + 1]
    /\ apiOutcome' = NoApiOutcome
    /\ UNCHANGED <<mounted, searchVars, appVars, last>>

\* The raw body holds one fragment more.
BodyGrows(f) ==
    /\ apiCall.fragments < MaxFragments
    /\ apiCall' = [apiCall EXCEPT !.raw = Joined(@, f.text),
                                  !.kinds = @ \cup {f.kind},
                                  !.fragments = @ + 1]
    /\ apiOutcome' = NoApiOutcome
    /\ UNCHANGED <<mounted, searchVars, appVars, last>>

\* throw new Error(parseError(err, rawBody))
Classify ==
    /\ apiOutcome = NoApiOutcome
    /\ apiOutcome' = Thrown("Error", parseError(apiCall.message, apiCall.raw))
    /\ UNCHANGED <<mounted, searchVars, appVars, apiCall, last>>

ClassifyNext ==
    \/ \E f \in Fragments : MessageGrows(f)
    \/ \E f \in Fragments : BodyGrows(f)
    \/ Classify

ClassifySpec == ClassifyInit /\ [][ClassifyNext]_vars

(***************************************************************************)
(* Properties of the debounced search controller (SearchSpec)              *)
(***************************************************************************)
\* C1: a search call whose input has changed since it was issued never causes its
\* results to be displayed, whatever the order of timers and network completions:
\* no step in which a call settles and its results are displayed is the step of a
\* call whose input has changed since.
C1_SupersededResultsNeverDisplayed ==
    (last.op = "settle" /\ last.applied = "results") => ~last.superseded

\* The quiet interval of the current burst's last change has run out and the timer
\* armed by that change, if any, has fired, with the search bar still mounted.
BurstOver ==
    /\ mounted = "yes"
    /\ burst.changes >= 1
    /\ sinceChange = DEBOUNCE_MS
    /\ timers = {}

\* C2, as stated: for every burst of input changes, each arriving before the quiet
\* interval of the previous one has run out, whose final text is non-empty, exactly one
\* search call is issued and its keyword is the final text.
C2_OneCallPerNonEmptyBurst ==
    /\ Len(burst.issued) <= 1
    /\ \A i \in 1..Len(burst.issued) : burst.issued[i] = burst.text
    /\ (BurstOver /\ burst.text # "") => burst.issued = <<burst.text>>

\* C2, amended: for every burst of input changes, each arriving before the quiet
\* interval of the previous one has run out, whose final text is non-empty after
\* trimming, exactly one search call is issued and its keyword is the final text; a
\* burst whose final text is empty after trimming issues none.
C2_OneCallPerBurst ==
    /\ Len(burst.issued) <= 1
    /\ \A i \in 1..Len(burst.issued) : burst.issued[i] = burst.text
    /\ (BurstOver /\ trim(burst.text) # "") => burst.issued = <<burst.text>>
    /\ (BurstOver /\ trim(burst.text) = "") => burst.issued = <<>>

\* A burst of two changes or more is over and its one call was issued.
C2_BurstSearched ==
    /\ BurstOver
    /\ burst.changes >= 2
    /\ burst.issued = <<burst.text>>

\* C3: no search call is issued unless a full quiet interval has elapsed since the
\* most recent input change, and every input change cancels the timer armed by the
\* previous one: after a change the only timer pending is the one it armed.
C3_QuietIntervalBeforeCall ==
    /\ last.op = "issue" => last.quiet >= DEBOUNCE_MS
    /\ last.op = "change" =>
          /\ Cardinality(timers) <= 1
          /\ \A t \in timers : t.value = last.value /\ t.remaining = DEBOUNCE_MS
    /\ \A t \in timers : t.remaining + sinceChange = DEBOUNCE_MS

\* A call is issued at the end of a burst in which a change cancelled a pending timer.
C3_IssuedAfterCancelledTimer ==
    /\ last.op = "issue"
    /\ burst.changes >= 2
    /\ last.keyword = burst.text

\* C4: once a newer search call has been issued, no outcome of an earlier call is
\* applied to the displayed state: a call that applies results or an error is the
\* most recently issued one and has not been cancelled, and no call issued earlier
\* stays in flight beside it.
C4_OnlyLatestCallApplies ==
    /\ (last.op = "settle" /\ last.applied \in {"results", "error"}) => last.current
    /\ \A i \in 1..Len(calls) : mounted = "yes" => (calls[i].current /\ i = Len(calls))

\* A newer call is issued while an earlier one is in flight: the earlier one is
\* cancelled and the newer one is the only call left.
C4_NewerCallIssued ==
    /\ last.op = "issue"
    /\ last.cancelled >= 1
    /\ Len(calls) = 1
    /\ calls[1].keyword = last.keyword

\* C5: an input change that makes the input empty after trimming cancels the pending
\* timer, empties the displayed results and issues no search call in that step, and
\* no call is issued for that change later.
C5_EmptyInputIssuesNoCall ==
    /\ (last.op = "change" /\ trim(last.value) = "") =>
          /\ timers = {}
          /\ results = <<>>
          /\ \A i \in 1..Len(calls) : calls[i].superseded
    /\ trim(burst.text) = "" => burst.issued = <<>>
    /\ last.op = "issue" => trim(last.keyword) # ""
    /\ \A i \in 1..Len(calls) : trim(calls[i].keyword) # ""

\* The input is changed to a blank while a timer is pending and results are displayed.
C5_ClearedWhilePending ==
    /\ last.op = "change"
    /\ last.value = " "
    /\ last.armed = 1
    /\ last.hadResults

\* C10: a search call failing with Cancelled changes neither the displayed error nor
\* the displayed results; a call failing with any other kind sets the displayed error
\* to the failure's classified message and empties the displayed results.
C10_OnlyOtherFailuresShown ==
    /\ [](( /\ last.op = "settle"
            /\ mounted = "yes"
            /\ ~last.outcome.ok
            /\ last.outcome.name # "AbortError" )
          => ( /\ error = last.outcome.message
               /\ error \in {MsgTimeout, MsgRateLimited, MsgConfiguration,
                             MsgNotFound, MsgUnknown}
               /\ results = <<>> ))
    /\ [](last.op = "settle" => (last.outcome.ok \/ last.outcome.name # "AbortError"))
    /\ [][ (last'.op = "issue" /\ last'.cancelled >= 1)
              => (error' = error /\ results' = results) ]_vars
    /\ [][ last'.op = "unmount" => (error' = error /\ results' = results) ]_vars

\* A call is cancelled while results are displayed, and they stay.
C10_CancelledWhileResultsShown ==
    /\ last.op = "issue"
    /\ last.cancelled >= 1
    /\ results # <<>>
    /\ error = Null

\* C17: in every reachable state of the search session at most one debounce timer is
\* pending and at most one search call that has not been cancelled is in flight; the
\* timer pending is the one debounceTimer.current names, and the call in flight right
\* after a call is issued is the one just issued.
C17_OneTimerOneCall ==
    /\ Cardinality(timers) <= 1
    /\ Len(calls) <= 1
    /\ \A t \in timers : t.id = debounceTimer
    /\ last.op = "issue" => (Len(calls) = 1 /\ calls[1].keyword = last.keyword)

\* A timer is pending, armed by a change that cleared the previous one, while a call
\* is in flight.
C17_TimerBesideCall ==
    /\ Cardinality(timers) = 1
    /\ Len(calls) = 1
    /\ burst.changes >= 2

\* C23: the search bar's loading indicator is on whenever a search call that was not
\* cancelled is in flight, also after the call it replaced has settled as cancelled.
C23_LoadingWhileCallInFlight ==
    (mounted = "yes" /\ calls # <<>>) => loading

\* C24: from the selection that adds a result to the watchlist until the next change
\* of the input, the input and the displayed results are empty and no search call is
\* issued, whatever timer or call was pending when the result was selected.
C24_SelectionLeavesSearchEmpty ==
    /\ []((mounted = "yes" /\ burst.selected) => (input = "" /\ results = <<>>))
    /\ [][ (mounted = "yes" /\ burst.selected /\ burst'.selected) => last'.op # "issue"
         ]_vars

(***************************************************************************)
(* Properties of the quote state (QuoteSpec)                               *)
(***************************************************************************)
\* The fetches of symbol among those in flight.
FetchesOf(fs, symbol) == Cardinality({i \in 1..Len(fs) : fs[i].symbol = symbol})

\* A symbol's entry in one of the states of the specification's QuoteEntry.
InError(entry) == entry.present /\ ~entry.loading /\ entry.error \notin {Null, Undefined}

InSuccess(entry) ==
    entry.present /\ ~entry.loading /\ entry.error = Null /\ entry.price # Undefined

\* C6: one symbol's fetch outcome never changes another symbol's entry: every step in
\* which fetches start (the entries enter Loading) or a fetch settles (its quote or its
\* error is stored) leaves unchanged the entry of every symbol none of whose fetches
\* started or settled in the step.
C6_OtherEntriesUnchanged ==
    [][ fetches' # fetches =>
           \A t \in Symbols :
              FetchesOf(fetches', t) = FetchesOf(fetches, t) => stockData'[t] = stockData[t]
      ]_vars

\* AAPL and MSFT were both loading; AAPL's fetch failed and MSFT's succeeded.
C6_ErrorBesideSuccess ==
    /\ watchlist = <<"AAPL", "MSFT">>
    /\ fetches = <<>>
    /\ InError(stockData["AAPL"])
    /\ stockData["AAPL"].price = Undefined
    /\ InSuccess(stockData["MSFT"])

\* C7: an entry of the quote map exists only for a symbol of the watchlist, also when
\* a fetch for the symbol was in flight at its removal and completes afterwards.
C7_EntriesOnlyForWatched ==
    \A s \in Symbols : stockData[s].present => s \in Range(watchlist)

\* C13: every fetch request puts the symbol's entry into Loading in the step in which
\* the fetch is requested, and on mount exactly one fetch is requested for each
\* persisted symbol.
C13_LoadingWhenRequested ==
    /\ [][ \A t \in Symbols :
              FetchesOf(fetches', t) > FetchesOf(fetches, t) =>
                 /\ stockData'[t].present
                 /\ stockData'[t].loading
                 /\ stockData'[t].error = Null
         ]_vars
    /\ [][ (mounted = "no" /\ mounted' = "yes") =>
              /\ watchlist' = (IF storage.present THEN JSONparse(storage.text) ELSE <<>>)
              /\ \A t \in Symbols :
                    FetchesOf(fetches', t) = Cardinality({i \in 1..Len(watchlist') :
                                                            watchlist'[i] = t})
         ]_vars

\* Refresh All has put an entry that holds a quote into Loading again.
C13_RefreshedEntryLoading ==
    /\ watchlist = <<"AAPL", "MSFT">>
    /\ FetchesOf(fetches, "AAPL") = 1
    /\ FetchesOf(fetches, "MSFT") = 1
    /\ stockData["AAPL"].loading
    /\ stockData["AAPL"].price # Undefined
    /\ stockData["MSFT"].loading

\* The outcomes with which a fetch of symbol can fail.
QuoteFailures(symbol) ==
    {QuoteTimeoutOutcome, QuoteNetworkOutcome}
    \cup {QuoteOutcomes[symbol][b] : b \in {c \in QuoteBodies : ~QuoteOutcomes[symbol][c].ok}}

\* C14: when a symbol's fetch fails, the symbol's entry becomes Error (not loading)
\* with exactly the failure's message, and the quote the entry held (price, change,
\* percent, lastUpdated) is unchanged.
C14_ErrorKeepsQuote ==
    [][ \A i \in 1..Len(fetches) :
           \A failure \in QuoteFailures(fetches[i].symbol) :
              QuoteSettles(i, failure) =>
                 LET before == stockData[fetches[i].symbol]
                     after == stockData'[fetches[i].symbol]
                 IN  /\ after.present
                     /\ ~after.loading
                     /\ after.error = failure.message
                     /\ after.price = before.price
                     /\ after.change = before.change
                     /\ after.changePct = before.changePct
                     /\ after.lastUpdated = before.lastUpdated
      ]_vars

\* A fetch has failed for an entry that held a quote.
C14_ErrorOverQuote ==
    /\ InError(stockData["AAPL"])
    /\ stockData["AAPL"].price # Undefined
    /\ stockData["AAPL"].lastUpdated > 0
    /\ "AAPL" \in Range(watchlist)

\* C16: after every add or remove the persisted text is the array of the watchlist's
\* symbols, in the watchlist's order and with nothing else, so that reading it back
\* gives the watchlist; on mount the watchlist is the persisted list; removing the only
\* symbol leaves the empty array.
C16_PersistedListIsWatchlist ==
    /\ [](mounted = "yes" =>
             /\ storage.present
             /\ storage.text = JSONstringify(watchlist)
             /\ JSONparse(storage.text) = watchlist
             /\ (watchlist = <<>> => storage.text = "[]"))
    /\ [][ (mounted = "no" /\ mounted' = "yes" /\ storage.present) =>
              watchlist' = JSONparse(storage.text) ]_vars

\* The watchlist's symbols have all been removed, one of them while its fetch was in
\* flight, and the persisted list is empty.
C16_EmptyListPersisted ==
    /\ mounted = "yes"
    /\ watchlist = <<>>
    /\ storage.text = "[]"
    /\ fetches # <<>>

\* Everything a fetch of symbol can settle with.
QuoteResults(symbol) ==
    {QuoteTimeoutOutcome, QuoteNetworkOutcome}
    \cup {QuoteOutcomes[symbol][b] : b \in QuoteBodies}

\* The entry shows what a fetch settled with: the quote fetched, or the failure's
\* message.
Shows(entry, outcome) ==
    /\ entry.present
    /\ ~entry.loading
    /\ IF outcome.ok
       THEN /\ entry.error = Null
            /\ entry.price = outcome.value.price
            /\ entry.change = outcome.value.change
            /\ entry.changePct = outcome.value.changePct
       ELSE entry.error = outcome.message

\* C21: the fetches of one symbol are applied in the order in which they settle, not
\* the order in which they were requested: whenever a fetch settles, also one that a
\* later request for the same symbol has overtaken, the symbol's entry shows that
\* fetch's outcome after the step.
C21_LastResolvedWins ==
    [][ \A i \in 1..Len(fetches) :
           \A outcome \in QuoteResults(fetches[i].symbol) :
              (mounted = "yes" /\ RaceSettles(i, outcome)) =>
                 Shows(stockData'[fetches[i].symbol], outcome)
      ]_vars

\* AAPL was requested twice; the later request settled first with a quote, then the
\* earlier request failed, and the entry shows the earlier request's failure.
C21_OlderResultOverNewer ==
    /\ last.op = "settled"
    /\ last.symbol = "AAPL"
    /\ last.overtaken
    /\ FetchesOf(fetches, "AAPL") = 0
    /\ InError(stockData["AAPL"])
    /\ stockData["AAPL"].price # Undefined

\* C22: a symbol's entry is loading whenever a fetch for the symbol is in flight, also
\* after the first of two overlapping fetches for the symbol has settled.
C22_LoadingWhileFetchInFlight ==
    mounted = "yes" =>
       \A s \in Symbols :
          (stockData[s].present /\ FetchesOf(fetches, s) > 0) => stockData[s].loading

(***************************************************************************)
(* Properties of one call of the remote access layer (CallSpec)            *)
(***************************************************************************)
\* The phrases that signal a rate limit, in lower case.
RateLimitPhrases ==
    {"thank you for your patience", "call frequency", "premium", "rate limit", "too many"}

\* The notice of a body of the shape { Information | Note : string }, "" if the body
\* has another shape.
NoticeOf(body) ==
    IF ~body.json THEN ""
    ELSE IF body.Information # "" /\ body.Note = "" THEN body.Information
    ELSE IF body.Information = "" /\ body.Note # "" THEN body.Note
    ELSE ""

CarriesRateLimitIndicator(body) ==
    \E phrase \in RateLimitPhrases : includes(toLowerCase(NoticeOf(body)), phrase)

\* The keys of the mock search table that match keyword.
MatchingMockKeys(keyword) ==
    {i \in 1..Len(MOCK_SEARCH_KEYS) : startsWith(MOCK_SEARCH_KEYS[i], toLowerCase(keyword))}

C9_SettledByTimeout ==
    /\ CallPending => apiCall.elapsed <= TIMEOUT_MS
    /\ apiCall.timedOut => apiOutcome = Thrown("Error", MsgTimeout)

\* C11: if the caller's signal is aborted before a search call has settled, the call
\* fails with the AbortError as it is, never with a classified message.
C11_AbortedCallFailsCancelled ==
    apiCall.aborted =>
        /\ apiOutcome = AbortError
        /\ apiOutcome.message \notin {MsgTimeout, MsgRateLimited, MsgConfiguration,
                                      MsgNotFound, MsgUnknown}

\* The caller's signal is aborted some time after the call was issued.
C11_AbortedAfterIssue ==
    /\ apiCall.aborted
    /\ apiCall.op = "search"
    /\ apiCall.elapsed > 0
    /\ apiCall.phase = "settled"
    /\ ~apiCall.delivered

\* C12: on teardown the pending debounce timer and the search call in flight are both
\* cancelled: after teardown no timer is pending and no call is in flight, no search
\* call is issued, and the displayed results and error no longer change.
C12_TeardownCancelsAll ==
    /\ [](mounted = "gone" =>
             /\ timers = {}
             /\ calls = <<>>
             /\ last.op \in {"unmount", "tick"})
    /\ [][ mounted = "gone" =>
              (results' = results /\ error' = error /\ loading' = loading /\ calls' = calls)
         ]_vars

\* The search bar is torn down with a timer pending and a call in flight.
C12_TornDownWhileBusy ==
    /\ mounted = "gone"
    /\ last.op = "unmount"
    /\ last.timers >= 1
    /\ last.calls >= 1

\* A search call has been answered with a rate-limit notice.
SearchRateLimited ==
    /\ apiCall.phase = "settled"
    /\ apiCall.delivered
    /\ apiCall.op = "search"
    /\ CarriesRateLimitIndicator(apiCall.body)

\* The keys of the mock search table that are a prefix of keyword, whatever the case.
MockKeysPrefixOf(keyword) ==
    {i \in 1..Len(MOCK_SEARCH_KEYS) : startsWith(toLowerCase(keyword), MOCK_SEARCH_KEYS[i])}

OtherNoticeDelivered ==
    /\ apiCall.phase = "settled"
    /\ apiCall.delivered
    /\ NoticeOf(apiCall.body) # ""
    /\ ~CarriesRateLimitIndicator(apiCall.body)

\* Whether the notice or the raw body holds one of the phrases of a classified kind.
HoldsTrigger(body) ==
    \E phrase \in {"timeout", "429", "Invalid API", "invalid", "not found", "No data"} :
        includes(NoticeOf(body) \o " " \o body.raw, phrase)

\* C19, as stated: a provider message that is no rate-limit indicator makes search and
\* fetchQuote fail with the message of UpstreamError, whatever its text.
C19_OtherNoticeIsUnknown ==
    OtherNoticeDelivered => apiOutcome = Thrown("Error", MsgUnknown)

\* C19, amended: a provider message that is no rate-limit indicator makes search and
\* fetchQuote fail with a classified message: that of UpstreamError when the message
\* holds none of the phrases of the other kinds, and that of ConfigurationError when it
\* holds "invalid" or "Invalid API" and neither "timeout" nor "429".
C19_OtherNoticeIsClassified ==
    OtherNoticeDelivered =>
        LET text == NoticeOf(apiCall.body) \o " " \o apiCall.body.raw
        IN  /\ ~apiOutcome.ok
            /\ apiOutcome.name = "Error"
            /\ apiOutcome.message \in {MsgTimeout, MsgRateLimited, MsgConfiguration,
                                       MsgNotFound, MsgUnknown}
            /\ ~HoldsTrigger(apiCall.body) => apiOutcome.message = MsgUnknown
            /\ ( /\ includes(text, "invalid") \/ includes(text, "Invalid API")
                 /\ ~includes(text, "timeout")
                 /\ ~includes(text, "429") )
               => apiOutcome.message = MsgConfiguration

\* fetchQuote is answered with a notice about the demo key and fails with the message
\* of UpstreamError.
C19_DemoKeyNotice ==
    /\ OtherNoticeDelivered
    /\ apiCall.op = "quote"
    /\ apiCall.body = NoticeBody(OtherInformation, "")
    /\ apiOutcome = Thrown("Error", MsgUnknown)

(***************************************************************************)
(* Properties of the watchlist (ListSpec)                                  *)
(***************************************************************************)
NoDuplicates(list) == \A i, j \in 1..Len(list) : list[i] = list[j] => i = j

\* C15: starting from a watchlist of at most 5 distinct symbols, after any sequence of
\* adds and removes the watchlist holds at most 5 symbols and none twice; a step that
\* lengthens the watchlist appends a symbol that was absent to a watchlist of fewer
\* than 5, a fetch is requested only by such a step (or on mount), and an add of a
\* symbol already present, or to a watchlist of 5, changes neither the watchlist nor
\* the quote map and requests no fetch.
C15_CapacityAndNoDuplicates ==
    /\ [](Len(watchlist) <= 5 /\ NoDuplicates(watchlist))
    /\ [][ (mounted = "yes" /\ Len(watchlist') > Len(watchlist)) =>
              /\ Len(watchlist) < 5
              /\ \E s \in ListSymbols \ Range(watchlist) : watchlist' = Append(watchlist, s)
         ]_vars
    /\ [][ (mounted = "yes" /\ Len(fetches') > Len(fetches)) =>
              Len(watchlist') = Len(watchlist) + 1 ]_vars
    /\ [][ \A s \in ListSymbols :
              (ListAdd(s) /\ (s \in Range(watchlist) \/ Len(watchlist) >= 5)) =>
                 (watchlist' = watchlist /\ stockData' = stockData /\ fetches' = fetches)
         ]_vars

\* The watchlist is full while a symbol on offer is not in it.
C15_WatchlistFull ==
    /\ Len(watchlist) = 5
    /\ ListSymbols \ Range(watchlist) # {}
    /\ Len(fetches) < MaxInFlight
    /\ mounted = "yes"

(***************************************************************************)
(* Properties of the classification of failures (ClassifySpec)             *)
(***************************************************************************)
\* The fixed message of each kind, in the order of the classification.
KindMessage(kind) ==
    CASE kind = 1 -> "Connection timed out. Please try again."
      [] kind = 2 -> "Too many requests. Try again in 1 minute."
      [] kind = 3 -> "Configuration error. Please contact support."
      [] kind = 4 -> "Symbol not found. Check your spelling."
      [] OTHER    -> "Something went wrong. Please try again."

\* C20: the classification is first-match-wins in the order Timeout, RateLimited,
\* ConfigurationError, NotFound, Unknown: whichever phrases the failure text holds, in
\* the error's message or in the raw body, the message returned is the fixed message
\* of the earliest kind of which it holds a phrase.
C20_FirstMatchWins ==
    (apiCall.op = "classify" /\ apiOutcome # NoApiOutcome) =>
        LET present == apiCall.kinds \ {0}
        IN  apiOutcome.message =
               KindMessage(IF present = {} THEN 0 ELSE Min(present))

\* A text that holds a phrase of NotFound before a phrase of ConfigurationError, and
\* no phrase of an earlier kind, is classified as ConfigurationError.
C20_LaterPhraseWins ==
    /\ apiCall.op = "classify"
    /\ apiCall.kinds = {3, 4}
    /\ apiCall.message = "No data"
    /\ apiCall.raw = "Invalid API"
    /\ apiOutcome = Thrown("Error", MsgConfiguration)

=============================================================================
